---- MODULE Spec2Model ----
(***************************************************************************)
(* A model of c2e: the codec compiler (c2e_codec.py: Codec, Encoder) and   *)
(* the AST node model and template formatter (codec2ast.py).               *)
(*                                                                         *)
(* Text is modelled as a sequence of code points (naturals), so that the   *)
(* regular expressions, the hex parsing and the ordinal comparisons of the *)
(* source are computed and never assumed.                                  *)
(***************************************************************************)
EXTENDS Integers, Sequences, FiniteSets, TLC

VARIABLES
    codecs,     \* Encoder._codecs
    targets,    \* Encoder._targets
    lastAdd,    \* the last call of Encoder.add: its argument and its outcome
    addLog,     \* history: the codecs whose add returned normally, in call order
    nCalls,     \* number of add calls made so far
    guard,      \* the guard text handed to parseGuard
    gres,       \* what parseGuard returned or raised ("pending" before the call)
    gcand,      \* the candidate last classified with the parsed predicate
    doc,        \* the codec document handed to Codec(...)
    compiled,   \* the Codec built from doc, or the exception its construction raised
    sel,        \* the candidate last run through the codec's ast and the emitter it reached
    fstrings,   \* AstFormatter._format_strings: dispatch key -> template
    escape,     \* AstFormatter.escape_func
    asts,       \* the trees handed to AstFormatter.format
    flog,       \* the format calls made so far: the tree's index, the keys of the
                \* mapping and the escape function at the call, and the result
    tasks       \* the add calls running concurrently on one Encoder: for each
                \* task its argument, the statement it is at, and how it ended

encVars   == <<codecs, targets, lastAdd, addLog, nCalls>>
guardVars == <<guard, gres, gcand>>
codecVars == <<doc, compiled, sel>>
fmtVars   == <<fstrings, escape, asts, flog>>
taskVars  == <<tasks>>
vars      == <<encVars, guardVars, codecVars, fmtVars, taskVars>>

\* ------------------------------------------------------------------ bounds

MaxAdds == 4        \* add calls in one run of the Encoder specification
MaxJunk == 1        \* characters of junk put around a well-formed guard
MaxRules == 2       \* rules in a codec document
RecursionLimit == 3 \* nested parseEmitter calls the interpreter's stack allows
MaxMissing == 1     \* dispatch keys left out of the template mapping at the start
MaxFormats == 3     \* format calls in one run of the formatter specification
NTasks == 2         \* tasks calling add on one Encoder at the same time

\* ------------------------------------------------------------- characters

ChNewline == 10
ChLParen  == 40
ChRParen  == 41
ChPlus    == 43
ChMinus   == 45
ChUpperU  == 85
ChLowerU  == 117
MaxUnicode == 1114111       \* chr() raises ValueError above 0x10FFFF

\* [0-9a-fA-F]
IsHexDigit(ch) == (ch \in 48..57) \/ (ch \in 65..70) \/ (ch \in 97..102)

HexValueUpperOnly(ch) ==
    IF ch \in 48..57 THEN ch - 48 ELSE ch - 55

HexValue(ch) ==
    IF ch \in 48..57 THEN ch - 48
    ELSE IF ch \in 65..70 THEN ch - 55
    ELSE ch - 87

\* int(s, 16) on a string of hex digits
RECURSIVE IntBase16(_)
IntBase16(s) ==
    IF Len(s) = 0 THEN 0
    ELSE 16 * IntBase16(SubSeq(s, 1, Len(s) - 1)) + HexValue(s[Len(s)])

\* --------------------------------------------------------------- AST nodes

NoNode == [node |-> "None"]

Candidate == [node |-> "Candidate"]

\* Codepoint(cp) for a one-character string or an int: the node keeps the
\* character, here its ordinal.
Codepoint(cp) == [node |-> "Codepoint", codepoint |-> cp]

BinOp(operation, operand1, operand2) ==
    [node |-> "BinOp", operation |-> operation,
     operand1 |-> operand1, operand2 |-> operand2]

Bool(value) == [node |-> "Bool", value |-> value]

Nop == [node |-> "Nop"]

ConstantEmitter(s) == [node |-> "ConstantEmitter", string |-> s]

EmitterList(emitters) == [node |-> "EmitterList", emitters |-> emitters]

If(condition, iftrue, iffalse) ==
    [node |-> "If", condition |-> condition, iftrue |-> iftrue, iffalse |-> iffalse]

\* ----------------------------------------------------------------- Encoder

TargetNames == {"html", "css", "url"}

\* Arguments of Encoder.add: Codec objects (told apart by id, so that two
\* codecs of one target are two objects) and one object that is no Codec.
CodecObjects == [kind : {"Codec"}, id : 1..2, target : TargetNames]
NotACodec    == [kind |-> "other", id |-> 0, target |-> "none"]
AddArguments == CodecObjects \cup {NotACodec}

RECURSIVE Contains(_, _)
Contains(list, x) ==
    IF Len(list) = 0 THEN FALSE
    ELSE list[1] = x \/ Contains(Tail(list), x)

\* Encoder.add on the registry enc = [codecs, targets]: the registry after
\* the call and how the call ended.
addPrepend(enc, codec) ==
    IF codec.kind = "Codec"
    THEN IF ~Contains(enc.targets, codec.target)
         THEN [codecs |-> <<codec>> \o enc.codecs,
               targets |-> Append(enc.targets, codec.target),
               outcome |-> "ok"]
         ELSE [codecs |-> enc.codecs, targets |-> enc.targets,
               outcome |-> "ValueError"]
    ELSE [codecs |-> enc.codecs, targets |-> enc.targets,
          outcome |-> "AttributeError"]

addThenCheck(enc, codec) ==
    IF codec.kind = "Codec"
    THEN IF ~Contains(enc.targets, codec.target)
         THEN [codecs |-> Append(enc.codecs, codec),
               targets |-> Append(enc.targets, codec.target),
               outcome |-> "ok"]
         ELSE [codecs |-> Append(enc.codecs, codec), targets |-> enc.targets,
               outcome |-> "ValueError"]
    ELSE [codecs |-> enc.codecs, targets |-> enc.targets,
          outcome |-> "AttributeError"]

add(enc, codec) ==
    IF codec.kind = "Codec"
    THEN IF ~Contains(enc.targets, codec.target)
         THEN [codecs |-> Append(enc.codecs, codec),
               targets |-> Append(enc.targets, codec.target),
               outcome |-> "ok"]
         ELSE [codecs |-> enc.codecs, targets |-> enc.targets,
               outcome |-> "ValueError"]
    ELSE [codecs |-> enc.codecs, targets |-> enc.targets,
          outcome |-> "AttributeError"]

NoCall == [arg |-> NotACodec, outcome |-> "none"]

EncoderInit ==
    /\ codecs = <<>>
    /\ targets = <<>>
    /\ lastAdd = NoCall
    /\ addLog = <<>>
    /\ nCalls = 0

\* One serialized call of Encoder.add.
Add ==
    /\ nCalls < MaxAdds
    /\ \E arg \in AddArguments :
         LET r == add([codecs |-> codecs, targets |-> targets], arg) IN
           /\ codecs' = r.codecs
           /\ targets' = r.targets
           /\ lastAdd' = [arg |-> arg, outcome |-> r.outcome]
           /\ addLog' = IF r.outcome = "ok" THEN Append(addLog, arg) ELSE addLog
    /\ nCalls' = nCalls + 1
    /\ UNCHANGED <<guardVars, codecVars, fmtVars, taskVars>>

\* ------------------------------------------------- concurrent add calls

Tasks == 1..NTasks

TasksIdle == tasks = <<>>

\* Every task is about to call add with an argument of its own.
TasksInit ==
    tasks \in [Tasks -> [arg : AddArguments, pc : {"test"}, outcome : {"none"}]]

\* `if isinstance(codec, Codec):` and `if codec.target not in self._targets:`
\* of task t: the isinstance test reads nothing shared; the membership test
\* reads the target list as it is now. The raise statements end the call.
TestMembership(t) ==
    /\ tasks[t].pc = "test"
    /\ tasks' = [tasks EXCEPT ![t] =
                   IF tasks[t].arg.kind # "Codec"
                   THEN [@ EXCEPT !.pc = "done", !.outcome = "AttributeError"]
                   ELSE IF ~Contains(targets, tasks[t].arg.target)
                   THEN [@ EXCEPT !.pc = "appendTarget"]
                   ELSE [@ EXCEPT !.pc = "done", !.outcome = "ValueError"]]
    /\ UNCHANGED <<encVars, guardVars, codecVars, fmtVars>>

\* `self._targets.append(codec.target)` of task t
AppendTarget(t) ==
    /\ tasks[t].pc = "appendTarget"
    /\ targets' = Append(targets, tasks[t].arg.target)
    /\ tasks' = [tasks EXCEPT ![t].pc = "appendCodec"]
    /\ UNCHANGED <<codecs, lastAdd, addLog, nCalls, guardVars, codecVars, fmtVars>>

\* `self._codecs.append(codec)` of task t, after which add returns
AppendCodec(t) ==
    /\ tasks[t].pc = "appendCodec"
    /\ codecs' = Append(codecs, tasks[t].arg)
    /\ tasks' = [tasks EXCEPT ![t].pc = "done", ![t].outcome = "ok"]
    /\ UNCHANGED <<targets, lastAdd, addLog, nCalls, guardVars, codecVars, fmtVars>>

\* ------------------------------------------------------------ Guard parser

\* re.match(r'^.$', guard, re.DOTALL): one character of any kind; `$` also
\* matches just before a newline that ends the text.
SingleCharMatch(s) ==
    \/ Len(s) = 1
    \/ Len(s) = 2 /\ s[2] = ChNewline

\* (?:u|U)\+ followed by exactly n hex digits, as the whole of t
IsEscape(t, n) ==
    /\ Len(t) = n + 2
    /\ t[1] \in {ChLowerU, ChUpperU}
    /\ t[2] = ChPlus
    /\ \A i \in 3..(n + 2) : IsHexDigit(t[i])

\* re.match(r'^(?:u|U)\+([0-9a-fA-F]{6}|[0-9a-fA-F]{4})$', s): group(1), the
\* hex digits, or the empty string when s does not match. `.` is not used, so
\* the only slack is the `$`, which matches before one newline ending s.
UnicodeFormGroup(s) ==
    LET core == IF Len(s) > 0 /\ s[Len(s)] = ChNewline
                THEN SubSeq(s, 1, Len(s) - 1) ELSE s
    IN  IF IsEscape(core, 6) \/ IsEscape(core, 4)
        THEN SubSeq(core, 3, Len(core))
        ELSE <<>>

\* The lengths of one operand of _range_regex, in the order the alternation
\* tries them: U+HHHHHH, U+HHHH, any one character.
OperandLengths == <<8, 6, 1>>

OperandAt(s, from, len) ==
    /\ from + len - 1 <= Len(s)
    /\ IF len = 1 THEN TRUE ELSE IsEscape(SubSeq(s, from, from + len - 1), len - 2)

\* re.match(_range_regex, s, re.DOTALL): the pattern has no `^`/`$`; match()
\* anchors it at the start only, so it matches a prefix of s. The result is
\* [matched, min, max] with min and max the two groups.
RangeMatch(s) ==
    LET fits(i, j) ==
            LET la == OperandLengths[i]
                lb == OperandLengths[j]
            IN  /\ Len(s) >= la + lb + 3
                /\ s[1] = ChLParen
                /\ OperandAt(s, 2, la)
                /\ s[2 + la] = ChMinus
                /\ OperandAt(s, 3 + la, lb)
                /\ s[3 + la + lb] = ChRParen
        hits == {p \in (1..3) \X (1..3) : fits(p[1], p[2])}
    IN  IF hits = {} THEN [matched |-> FALSE, min |-> <<>>, max |-> <<>>]
        ELSE LET p  == CHOOSE q \in hits :
                          \A r \in hits : q[1] < r[1] \/ (q[1] = r[1] /\ q[2] <= r[2])
                 la == OperandLengths[p[1]]
                 lb == OperandLengths[p[2]]
             IN  [matched |-> TRUE,
                  min |-> SubSeq(s, 2, 1 + la),
                  max |-> SubSeq(s, 3 + la, 2 + la + lb)]

GuardResult(status, node) == [status |-> status, node |-> node]

\* Codepoint(cp) for a string that is not one character: the string is looked
\* up as a character name. None of the two-character texts that reach this
\* (a character and a newline) is a name: KeyError, or UnicodeEncodeError
\* when the text holds a surrogate, which the lookup cannot encode.
NameLookupError(s) ==
    IF \E i \in 1..Len(s) : s[i] \in 55296..57343
    THEN "UnicodeEncodeError" ELSE "KeyError"

\* One end of a range: the group text, replaced by chr(int(hex, 16)) when it
\* is a hex escape. [ok, cp]; ok is FALSE when chr() raises ValueError.
RangeEnd(text) ==
    LET hex == UnicodeFormGroup(text) IN
      IF hex # <<>>
      THEN [ok |-> IntBase16(hex) <= MaxUnicode, cp |-> IntBase16(hex)]
      ELSE [ok |-> TRUE, cp |-> text[1]]

RangePredicateExclusive(lo, hi) ==
    BinOp("land", BinOp("gt", Candidate, Codepoint(lo)),
                  BinOp("lte", Candidate, Codepoint(hi)))

\* The predicate built for a range with ends lo and hi.
RangePredicate(lo, hi) ==
    BinOp("land", BinOp("gte", Candidate, Codepoint(lo)),
                  BinOp("lte", Candidate, Codepoint(hi)))

\* parseGuard(guard): status "ok" with the predicate, status "None" when the
\* function falls off its end and returns None, or the exception raised.
parseGuard(s) ==
    IF SingleCharMatch(s)
    THEN \* Codepoint(guard): a string of length 1 is the code point, any
         \* other string is looked up as a character name (KeyError)
         IF Len(s) = 1
         THEN GuardResult("ok", BinOp("eq", Candidate, Codepoint(s[1])))
         ELSE GuardResult(NameLookupError(s), NoNode)
    ELSE IF UnicodeFormGroup(s) # <<>>
    THEN LET n == IntBase16(UnicodeFormGroup(s)) IN
           IF n <= MaxUnicode
           THEN GuardResult("ok", BinOp("eq", Candidate, Codepoint(n)))
           ELSE GuardResult("ValueError", NoNode)
    ELSE LET rm == RangeMatch(s) IN
      IF rm.matched
      THEN LET lo == RangeEnd(rm.min)
               hi == RangeEnd(rm.max)
           IN  IF ~lo.ok \/ ~hi.ok THEN GuardResult("ValueError", NoNode)
               ELSE IF ~(lo.cp <= hi.cp) THEN GuardResult("AssertionError", NoNode)
               ELSE GuardResult("ok", RangePredicate(lo.cp, hi.cp))
      ELSE GuardResult("None", NoNode)

\* Whether a predicate holds for a candidate code point: Codepoints compare
\* by their character (Codepoint.__eq__, __lt__ under total_ordering).
RECURSIVE Holds(_, _)
Holds(p, c) ==
    IF p.node = "Bool" THEN p.value
    ELSE IF p.operation = "land" THEN Holds(p.operand1, c) /\ Holds(p.operand2, c)
    ELSE IF p.operation = "lor"  THEN Holds(p.operand1, c) \/ Holds(p.operand2, c)
    ELSE IF p.operation = "eq"   THEN c = p.operand2.codepoint
    ELSE IF p.operation = "lt"   THEN c < p.operand2.codepoint
    ELSE IF p.operation = "gt"   THEN c > p.operand2.codepoint
    ELSE IF p.operation = "lte"  THEN c <= p.operand2.codepoint
    ELSE c >= p.operand2.codepoint

\* ------------------------------------------------------------- guard texts

HexDigitChar(d, upper) ==
    IF d < 10 THEN 48 + d ELSE IF upper THEN 55 + d ELSE 87 + d

\* n written with exactly `width` hex digits (zero-padded)
RECURSIVE HexText(_, _, _)
HexText(n, width, upper) ==
    IF width = 0 THEN <<>>
    ELSE Append(HexText(n \div 16, width - 1, upper), HexDigitChar(n % 16, upper))

Literal(c) == <<c>>

Escape(c, width, u, upper) == <<u, ChPlus>> \o HexText(c, width, upper)

RangeText(a, b) == <<ChLParen>> \o a \o <<ChMinus>> \o b \o <<ChRParen>>

\* The code points the guards are written about: newline, '-', 'a', 'm',
\* 'z', U+00AB, a surrogate, the first code point outside the basic
\* multilingual plane, and the last code point.
CodePoints == {10, 45, 97, 109, 122, 171, 55296, 65536, 1114111}

InBMP(c) == c <= 65535

Escapes4(c) ==
    IF InBMP(c)
    THEN {Escape(c, 4, u, up) : u \in {ChUpperU, ChLowerU}, up \in BOOLEAN}
    ELSE {}

Escapes6(c) == {Escape(c, 6, u, up) : u \in {ChUpperU, ChLowerU}, up \in BOOLEAN}

\* Every way of writing the code point c (c2e.py, "Characters ... can be
\* specified in three ways")
PointForms(c) == {Literal(c)} \cup Escapes4(c) \cup Escapes6(c)

RangeEndPoints == {45, 97, 122, 65536}

EndForms(c) ==
    {Literal(c), Escape(c, 6, ChUpperU, TRUE)}
        \cup (IF InBMP(c) THEN {Escape(c, 4, ChUpperU, FALSE)} ELSE {})

RangeTexts ==
    {RangeText(ta, tb) :
        ta \in UNION {EndForms(a) : a \in RangeEndPoints},
        tb \in UNION {EndForms(b) : b \in RangeEndPoints}}

WellFormedTexts == (UNION {PointForms(c) : c \in CodePoints}) \cup RangeTexts

JunkChars == {ChNewline, ChRParen, 120}

RECURSIVE JunkTexts(_)
JunkTexts(n) ==
    IF n = 0 THEN {<<>>}
    ELSE JunkTexts(n - 1)
            \cup {Append(j, ch) : j \in {k \in JunkTexts(n - 1) : Len(k) = n - 1},
                                  ch \in JunkChars}

\* Texts that are none of the three forms: a well-formed text with junk before
\* or after it, escapes with a wrong number of digits or beyond U+10FFFF, a
\* range with such an end, a range without its closing parenthesis, nothing.
MalformedTexts ==
    {j \o t : j \in JunkTexts(MaxJunk) \ {<<>>}, t \in WellFormedTexts}
      \cup {t \o j : j \in JunkTexts(MaxJunk) \ {<<>>}, t \in WellFormedTexts}
      \cup {Escape(c, w, ChUpperU, TRUE) : c \in {97, 171}, w \in {3, 5, 7}}
      \cup {Escape(MaxUnicode + 1, 6, ChUpperU, TRUE),
            RangeText(Escape(MaxUnicode + 1, 6, ChUpperU, TRUE), Literal(97)),
            RangeText(Literal(97), Escape(MaxUnicode + 1, 6, ChUpperU, TRUE)),
            RangeText(Escape(97, 3, ChUpperU, TRUE), Literal(122)),
            RangeText(<<97, 109>>, Literal(122)),
            <<ChLParen, 97, ChMinus, 122>>,
            <<97, ChMinus, 122>>,
            <<>>}

GuardTexts == WellFormedTexts \cup MalformedTexts

\* Candidates to classify: the code points above and their neighbours.
Candidates == CodePoints \cup {c - 1 : c \in CodePoints} \cup {c + 1 : c \in CodePoints \ {MaxUnicode}}

Pending == GuardResult("pending", NoNode)
NoCandidate == [cand |-> 0 - 1, holds |-> FALSE]

GuardIdle ==
    /\ guard = <<>>
    /\ gres = Pending
    /\ gcand = NoCandidate

GuardInit ==
    /\ guard \in GuardTexts
    /\ gres = Pending
    /\ gcand = NoCandidate

\* The call parseGuard(guard).
ParseGuard ==
    /\ gres = Pending
    /\ gres' = parseGuard(guard)
    /\ UNCHANGED <<guard, gcand, encVars, codecVars, fmtVars, taskVars>>

\* The predicate parseGuard produced, applied to one candidate.
Classify ==
    /\ gres.status = "ok"
    /\ \E c \in Candidates : gcand' = [cand |-> c, holds |-> Holds(gres.node, c)]
    /\ UNCHANGED <<guard, gres, encVars, codecVars, fmtVars, taskVars>>

\* --------------------------------------------------------- Emitter parser

_builtin_emitters == <<"DEC", "HEX", "NOP", "IDENTITY">>

\* Codec.Builtin(name): a BuiltinEmitter whose name passed isBuiltin
Builtin(name) == [node |-> "Builtin", builtin |-> name]

\* Emitter specs as they come out of the JSON document: a string, an object
\* {"emitter": name}, an object of n keys without the key "emitter", the
\* number n (false and true are the numbers 0 and 1), a list of n elements,
\* or null.
StrSpec(text)    == [kind |-> "str", s |-> text, name |-> "", n |-> 0]
RefSpec(name)    == [kind |-> "ref", s |-> <<>>, name |-> name, n |-> 1]
DictNoKeySpec(n) == [kind |-> "dict", s |-> <<>>, name |-> "", n |-> n]
NumberSpec(n)    == [kind |-> "number", s |-> <<>>, name |-> "", n |-> n]
ListSpec(n)      == [kind |-> "list", s |-> <<>>, name |-> "", n |-> n]
NullSpec         == [kind |-> "null", s |-> <<>>, name |-> "", n |-> 0]

\* self._userdefined_emitters: the keys of the document that are no keyword,
\* in document order
UserDefined(d) == [i \in DOMAIN d.defs |-> d.defs[i].name]

\* self.codec[em] for a user-defined name em
Definition(d, em) ==
    d.defs[CHOOSE i \in DOMAIN d.defs : d.defs[i].name = em].body

EmitterResult(status, node, chain) ==
    [status |-> status, node |-> node, chain |-> chain]

\* parseEmitter(emitter). chain is the names whose definitions are being
\* parsed by the calls below which this one runs; the recursion has no other
\* end than the interpreter's stack (RecursionError). A failed call carries
\* the chain at which it failed.
RECURSIVE parseEmitter(_, _, _), parseEmitterList(_, _, _, _)
parseEmitter(d, emitter, chain) ==
    IF emitter.kind \in {"ref", "dict"}
    THEN IF emitter.kind = "ref"
         THEN LET em == emitter.name IN
              IF Contains(UserDefined(d), em)
              THEN IF Len(chain) >= RecursionLimit
                   THEN EmitterResult("RecursionError", NoNode, chain)
                   ELSE parseEmitterList(d, Definition(d, em), 1, Append(chain, em))
              ELSE IF Contains(_builtin_emitters, em)
                   THEN EmitterResult("ok", Builtin(em), <<>>)
                   ELSE EmitterResult("ValueError", NoNode, chain)
         ELSE EmitterResult("ValueError", NoNode, chain)
    ELSE IF emitter.kind = "str"
    THEN EmitterResult("ok", ConstantEmitter(emitter.s), <<>>)
    ELSE EmitterResult("ValueError", NoNode, chain)

\* [parseEmitter(x) for x in self.codec[em]] from element i on, then
\* EmitterList(*emitter_list): the first exception ends the comprehension.
parseEmitterList(d, body, i, chain) ==
    IF i > Len(body) THEN EmitterResult("ok", EmitterList(<<>>), <<>>)
    ELSE LET first == parseEmitter(d, body[i], chain) IN
         IF first.status # "ok" THEN first
         ELSE LET rest == parseEmitterList(d, body, i + 1, chain) IN
              IF rest.status # "ok" THEN rest
              ELSE EmitterResult("ok",
                       EmitterList(<<first.node>> \o rest.node.emitters), <<>>)

\* ------------------------------------------------------------------- Codec

\* bool(value) of a value of the document: the empty string, the empty
\* object, the empty list, zero and null are false.
Truthy(emitter) ==
    IF emitter.kind = "str" THEN Len(emitter.s) > 0
    ELSE IF emitter.kind = "ref" THEN TRUE
    ELSE IF emitter.kind \in {"dict", "list"} THEN emitter.n > 0
    ELSE IF emitter.kind = "number" THEN emitter.n # 0
    ELSE FALSE

\* `if self._default_emitter:` where the default is None when the document
\* has no key DEFAULT-EMITTER
DefaultSupplied(d) == d.hasDefault /\ Truthy(d.default)

\* Rule parsing with an If whose condition setter takes whatever parseGuard
\* returned, None included.
RECURSIVE parseRulesAnyCondition(_, _)
parseRulesAnyCondition(d, i) ==
    IF i > Len(d.RULES) THEN [status |-> "ok", pairs |-> <<>>, chain |-> <<>>]
    ELSE LET g == parseGuard(d.RULES[i].guard) IN
         IF g.status \notin {"ok", "None"}
         THEN [status |-> g.status, pairs |-> <<>>, chain |-> <<>>]
         ELSE LET e == parseEmitter(d, d.RULES[i].emitter, <<>>) IN
              IF e.status # "ok"
              THEN [status |-> e.status, pairs |-> <<>>, chain |-> e.chain]
              ELSE [parseRulesAnyCondition(d, i + 1) EXCEPT
                      !.pairs = <<[condition |-> g.node, iftrue |-> e.node]>> \o @]

\* parseRule for rules i.. of the document, in order: the (condition, iftrue)
\* pairs assigned before the first exception, and that exception if any. parseGuard runs before parseEmitter, and a
\* guard that parsed to None is refused by the If.condition setter only after
\* the emitter was parsed.
RECURSIVE parseRules(_, _)
parseRules(d, i) ==
    IF i > Len(d.RULES) THEN [status |-> "ok", pairs |-> <<>>, chain |-> <<>>]
    ELSE LET g == parseGuard(d.RULES[i].guard) IN
         IF g.status \notin {"ok", "None"}
         THEN [status |-> g.status, pairs |-> <<>>, chain |-> <<>>]
         ELSE LET e == parseEmitter(d, d.RULES[i].emitter, <<>>) IN
              IF e.status # "ok"
              THEN [status |-> e.status, pairs |-> <<>>, chain |-> e.chain]
              ELSE IF g.status = "None"
              THEN [status |-> "AttributeError", pairs |-> <<>>, chain |-> <<>>]
              ELSE [parseRules(d, i + 1) EXCEPT
                      !.pairs = <<[condition |-> g.node, iftrue |-> e.node]>> \o @]

\* A chain that hangs the rules in the opposite order: the last rule is
\* tried first.
RECURSIVE ChainReversed(_, _)
ChainReversed(pairs, last) ==
    IF Len(pairs) = 0 THEN last
    ELSE If(pairs[Len(pairs)].condition, pairs[Len(pairs)].iftrue,
            ChainReversed(SubSeq(pairs, 1, Len(pairs) - 1), last))

\* The chain of If nodes the loop leaves behind: one per rule, each the
\* iffalse of the one before, closed by the node `last`.
RECURSIVE Chain(_, _)
Chain(pairs, last) ==
    IF Len(pairs) = 0 THEN last
    ELSE If(pairs[1].condition, pairs[1].iftrue, Chain(Tail(pairs), last))

CodecResult(status, d, root, chain) ==
    [status |-> status,
     target |-> d.TARGET,
     emitters |-> _builtin_emitters \o UserDefined(d),
     root |-> root,
     chain |-> chain]

\* The last If of the chain, lines 103-105, given the parsed rules and the
\* parsed default e: condition Bool.true and the default as iftrue; when
\* parseEmitter raised, the If keeps the iftrue it was born with.
CloseChain(d, rules, e) ==
    IF e.status # "ok"
    THEN CodecResult(e.status, d, Chain(rules.pairs, If(Bool(TRUE), Nop, Nop)), e.chain)
    ELSE CodecResult("ok", d, Chain(rules.pairs, If(Bool(TRUE), e.node, Nop)), <<>>)

\* The build of the tree, lines 96-105, given what the loop over the rules
\* did: an If is born with condition Bool.false and iftrue = iffalse =
\* Nop(), and an exception in the loop leaves the chain built so far.
BuildAst(d, rules) ==
    IF rules.status # "ok"
    THEN CodecResult(rules.status, d,
                     Chain(rules.pairs, If(Bool(FALSE), Nop, Nop)), rules.chain)
    ELSE IF DefaultSupplied(d)
    THEN CloseChain(d, rules, parseEmitter(d, d.default, <<>>))
    ELSE CodecResult("ok", d, Chain(rules.pairs, If(Bool(TRUE), Nop, Nop)), <<>>)

\* The codec setter, `c.codec = d`: the state of the object after it, and
\* the exception it raised if any. The target and the emitter names are
\* assigned before anything is parsed and _root at the start of the build,
\* so an exception leaves them with the part of the chain built so far.
SetCodec(d) == BuildAst(d, parseRules(d, 1))

\* What a constructor leaves of the object c its setter worked on: when the
\* setter raised there is no object, hence no tree.
Constructed(c) == IF c.status = "ok" THEN c ELSE [c EXCEPT !.root = NoNode]

\* Codec(document): __init__ runs the setter.
NewCodec(d) == Constructed(SetCodec(d))

\* The emitter a chain of Ifs hands a candidate to: the iftrue of the first
\* If whose condition holds (c2e.py: "If a candidate matches a guard then the
\* candidate is passed to the corresponding emitter").
RECURSIVE Select(_, _)
Select(n, c) ==
    IF n.node # "If" THEN n
    ELSE IF Holds(n.condition, c) THEN n.iftrue
    ELSE Select(n.iffalse, c)

\* decimal digits of n
RECURSIVE DecText(_)
DecText(n) ==
    IF n < 10 THEN <<48 + n>> ELSE Append(DecText(n \div 10), 48 + (n % 10))

\* hex digits of n, without padding
RECURSIVE HexDigits(_)
HexDigits(n) ==
    IF n < 16 THEN <<HexDigitChar(n, FALSE)>>
    ELSE Append(HexDigits(n \div 16), HexDigitChar(n % 16, FALSE))

\* What an emitter produces for a candidate (c2e.py: DEC emits the decimal
\* representation, HEX the hexadecimal one, IDENTITY its input, NOP nothing;
\* a string literal produces that string; a list concatenates).
RECURSIVE Emit(_, _)
Emit(e, c) ==
    IF e.node = "Nop" THEN <<>>
    ELSE IF e.node = "ConstantEmitter" THEN e.string
    ELSE IF e.node = "Builtin"
    THEN IF e.builtin = "DEC" THEN DecText(c)
         ELSE IF e.builtin = "HEX" THEN HexDigits(c)
         ELSE IF e.builtin = "IDENTITY" THEN <<c>>
         ELSE <<>>
    ELSE IF Len(e.emitters) = 0 THEN <<>>
    ELSE Emit(e.emitters[1], c) \o Emit(EmitterList(Tail(e.emitters)), c)

\* -------------------------------------------------------- codec documents

Rule(g, e) == [guard |-> g, emitter |-> e]
Def(name, body) == [name |-> name, body |-> body]

Ampersand == <<38>>

RuleGuards ==
    {RangeText(Literal(97), Literal(122)),      \* (a-z)
     Literal(109),                              \* m
     <<97, 98>>}                                \* ab: none of the forms

RuleEmitters == {RefSpec("NOP"), RefSpec("HEX"), RefSpec("A")}

RuleSet == {Rule(g, e) : g \in RuleGuards, e \in RuleEmitters}

RECURSIVE RuleLists(_)
RuleLists(n) ==
    IF n = 0 THEN {<<>>}
    ELSE RuleLists(n - 1)
            \cup {Append(l, r) : l \in {k \in RuleLists(n - 1) : Len(k) = n - 1},
                                 r \in RuleSet}

\* DEFAULT-EMITTER when the key is present
Defaults ==
    {StrSpec(<<>>), StrSpec(Ampersand), RefSpec("IDENTITY"), RefSpec("A"),
     RefSpec("Z"), DictNoKeySpec(0), DictNoKeySpec(1), NumberSpec(0), NumberSpec(7),
     ListSpec(0), ListSpec(1), NullSpec}

\* The other top-level keys: none; A as a list; A defined by itself; A and B
\* defined by each other; A through B; an empty A; a definition named HEX.
DefinitionSets ==
    {<<>>,
     <<Def("A", <<StrSpec(Ampersand), RefSpec("HEX")>>)>>,
     <<Def("A", <<RefSpec("A")>>)>>,
     <<Def("A", <<RefSpec("B")>>), Def("B", <<StrSpec(Ampersand), RefSpec("A")>>)>>,
     <<Def("A", <<RefSpec("B"), RefSpec("DEC")>>), Def("B", <<StrSpec(Ampersand)>>)>>,
     <<Def("A", <<>>)>>,
     <<Def("HEX", <<StrSpec(Ampersand)>>), Def("A", <<RefSpec("HEX")>>)>>}

Documents ==
    {[TARGET |-> "html", RULES |-> rs, hasDefault |-> TRUE, default |-> df, defs |-> ds] :
        rs \in RuleLists(MaxRules), df \in Defaults, ds \in DefinitionSets}
      \cup
    {[TARGET |-> "html", RULES |-> rs, hasDefault |-> FALSE, default |-> StrSpec(<<>>),
      defs |-> ds] :
        rs \in RuleLists(MaxRules), ds \in DefinitionSets}

\* Documents assigned to the codec property of a Codec that exists: one of
\* another target with a definition; one whose second rule is refused; two
\* rules that both match m, with a default; a definition that names itself;
\* a default that names nothing; a definition named like a builtin.
ReassignedDocuments ==
    {[TARGET |-> "css", RULES |-> <<>>, hasDefault |-> FALSE, default |-> StrSpec(<<>>),
      defs |-> <<Def("A", <<StrSpec(Ampersand)>>)>>],
     [TARGET |-> "html",
      RULES |-> <<Rule(Literal(109), RefSpec("HEX")), Rule(<<97, 98>>, RefSpec("NOP"))>>,
      hasDefault |-> FALSE, default |-> StrSpec(<<>>), defs |-> <<>>],
     [TARGET |-> "html",
      RULES |-> <<Rule(RangeText(Literal(97), Literal(122)), RefSpec("NOP")),
                  Rule(Literal(109), RefSpec("HEX"))>>,
      hasDefault |-> TRUE, default |-> StrSpec(Ampersand), defs |-> <<>>],
     [TARGET |-> "css", RULES |-> <<Rule(Literal(109), RefSpec("A"))>>,
      hasDefault |-> FALSE, default |-> StrSpec(<<>>),
      defs |-> <<Def("A", <<RefSpec("A")>>)>>],
     [TARGET |-> "html", RULES |-> <<Rule(Literal(109), RefSpec("HEX"))>>,
      hasDefault |-> TRUE, default |-> RefSpec("Z"), defs |-> <<>>],
     [TARGET |-> "css", RULES |-> <<>>, hasDefault |-> TRUE, default |-> NumberSpec(0),
      defs |-> <<Def("HEX", <<StrSpec(Ampersand)>>)>>]}

SelectCandidates == {97, 109, 122, 123}

NoDocument ==
    [TARGET |-> "", RULES |-> <<>>, hasDefault |-> FALSE, default |-> StrSpec(<<>>),
     defs |-> <<>>]
NotBuilt == [status |-> "pending", target |-> "", emitters |-> <<>>, root |-> NoNode,
             chain |-> <<>>]
NoSelection == [cand |-> 0 - 1, emitter |-> NoNode]

CodecIdle ==
    /\ doc = NoDocument
    /\ compiled = NotBuilt
    /\ sel = NoSelection

CodecInit ==
    /\ doc \in Documents
    /\ compiled = NotBuilt
    /\ sel = NoSelection

\* Codec(doc)
Compile ==
    /\ compiled = NotBuilt
    /\ compiled' = NewCodec(doc)
    /\ UNCHANGED <<doc, sel, encVars, guardVars, fmtVars, taskVars>>

\* c.codec = d on a Codec that exists (one whose constructor returned): the
\* setter runs again, on the same object.
Reassign ==
    /\ compiled.root # NoNode
    /\ \E d \in ReassignedDocuments :
         /\ doc' = d
         /\ compiled' = SetCodec(d)
    /\ sel' = NoSelection
    /\ UNCHANGED <<encVars, guardVars, fmtVars, taskVars>>

\* One candidate run through the chain of a Codec that exists.
Classified ==
    /\ compiled.root # NoNode
    /\ \E c \in SelectCandidates : sel' = [cand |-> c, emitter |-> Select(compiled.root, c)]
    /\ UNCHANGED <<doc, compiled, encVars, guardVars, fmtVars, taskVars>>

\* ----------------------------------------------------------- AstFormatter

\* A template is a sequence of pieces: literal text, or a replacement field
\* {name}; {} is the field "". The text of a literal piece is what .format
\* makes of it: a brace stands for the doubled brace of the template string.
Lit(text)   == [piece |-> "lit", text |-> text, field |-> ""]
Field(name) == [piece |-> "field", text |-> <<>>, field |-> name]

FormatResult(status, text) == [status |-> status, text |-> text]

\* getFstring(node): [found, template]. Operators and booleans fall back to
\* the empty template; every other kind is looked up by class name.
getFstring(fs, node) ==
    IF node.node = "BinOp"
    THEN [found |-> TRUE,
          template |-> IF node.operation \in DOMAIN fs THEN fs[node.operation] ELSE <<>>]
    ELSE IF node.node = "Bool"
    THEN LET key == IF node.value THEN "true" ELSE "false" IN
         [found |-> TRUE, template |-> IF key \in DOMAIN fs THEN fs[key] ELSE <<>>]
    ELSE IF node.node \in DOMAIN fs
    THEN [found |-> TRUE, template |-> fs[node.node]]
    ELSE [found |-> FALSE, template |-> <<>>]

EscapeFuncs == {"backslash", "identity"}

\* self.escape_func(c): the default doubles a backslash
EscapeChar(esc, c) == IF esc = "backslash" /\ c = 92 THEN <<92, 92>> ELSE <<c>>

RECURSIVE EscapeText(_, _)
EscapeText(esc, text) ==
    IF Len(text) = 0 THEN <<>>
    ELSE EscapeChar(esc, text[1]) \o EscapeText(esc, Tail(text))

\* The name of a builtin as text
NameText(name) ==
    IF name = "DEC" THEN <<68, 69, 67>>
    ELSE IF name = "HEX" THEN <<72, 69, 88>>
    ELSE IF name = "NOP" THEN <<78, 79, 80>>
    ELSE <<73, 68, 69, 78, 84, 73, 84, 89>>

\* The keyword arguments the visit_* method of a node hands to str.format,
\* and the number of positional ones (visit_ConstantEmitter passes the
\* escaped string by position); the methods of Candidate, Bool and Nop
\* return the template as it is.
FormatArguments(node) ==
    IF node.node = "If" THEN {"condition", "iftrue", "iffalse"}
    ELSE IF node.node = "BinOp" THEN {"operand1", "operand2"}
    ELSE IF node.node = "Codepoint" THEN {"codepoint"}
    ELSE IF node.node = "Builtin" THEN {"builtin"}
    ELSE {}

PositionalArguments(node) == IF node.node = "ConstantEmitter" THEN 1 ELSE 0

\* Field names that str.format reads as an index into the positional
\* arguments: digits, and the empty name, which takes the next index.
PositionalFields == {"", "0", "1", "2"}

PositionalIndex(name, auto) ==
    IF name = "" THEN auto
    ELSE IF name = "0" THEN 0 ELSE IF name = "1" THEN 1 ELSE 2

\* The exception of format_string.format(...) from piece i on, "ok" when
\* there is none. mode is "auto" after a field {}, "manual" after a field
\* {digit}, auto the number of {} fields met. Mixing the two numberings is a
\* ValueError, an index without positional argument an IndexError, a name
\* without keyword argument a KeyError.
RECURSIVE formatError(_, _, _, _, _)
formatError(node, template, i, mode, auto) ==
    IF i > Len(template) THEN "ok"
    ELSE IF template[i].piece = "lit"
    THEN formatError(node, template, i + 1, mode, auto)
    ELSE IF template[i].field \in PositionalFields
    THEN IF template[i].field = ""
         THEN IF mode = "manual" THEN "ValueError"
              ELSE IF auto >= PositionalArguments(node) THEN "IndexError"
              ELSE formatError(node, template, i + 1, "auto", auto + 1)
         ELSE IF mode = "auto" THEN "ValueError"
              ELSE IF PositionalIndex(template[i].field, auto) >= PositionalArguments(node)
              THEN "IndexError"
              ELSE formatError(node, template, i + 1, "manual", auto)
    ELSE IF template[i].field \notin FormatArguments(node) THEN "KeyError"
    ELSE formatError(node, template, i + 1, mode, auto)

\* The names of the fields as text
FieldNameText ==
    "condition" :> <<99, 111, 110, 100, 105, 116, 105, 111, 110>> @@
    "iftrue" :> <<105, 102, 116, 114, 117, 101>> @@
    "iffalse" :> <<105, 102, 102, 97, 108, 115, 101>> @@
    "operand1" :> <<111, 112, 101, 114, 97, 110, 100, 49>> @@
    "operand2" :> <<111, 112, 101, 114, 97, 110, 100, 50>> @@
    "codepoint" :> <<99, 111, 100, 101, 112, 111, 105, 110, 116>> @@
    "builtin" :> <<98, 117, 105, 108, 116, 105, 110>> @@
    "0" :> <<48>> @@
    "1" :> <<49>> @@
    "2" :> <<50>> @@
    "" :> <<>>

\* The template string of a sequence of pieces from piece i on: braces of
\* literal text doubled, fields in braces.
RECURSIVE DoubleBraces(_), TemplateString(_, _)
DoubleBraces(text) ==
    IF Len(text) = 0 THEN <<>>
    ELSE (IF text[1] \in {123, 125} THEN <<text[1], text[1]>> ELSE <<text[1]>>)
           \o DoubleBraces(Tail(text))

TemplateString(template, i) ==
    IF i > Len(template) THEN <<>>
    ELSE (IF template[i].piece = "lit" THEN DoubleBraces(template[i].text)
          ELSE <<123>> \o FieldNameText[template[i].field] \o <<125>>)
           \o TemplateString(template, i + 1)

CallsStrFormat(node) == node.node \notin {"Candidate", "Bool", "Nop", "EmitterList"}

\* The children a visit_* method visits before it formats, in order
\* (Python evaluates the arguments of .format first).
Visited(node) ==
    IF node.node = "If" THEN <<node.condition, node.iftrue, node.iffalse>>
    ELSE IF node.node = "BinOp" THEN <<node.operand1, node.operand2>>
    ELSE IF node.node = "EmitterList" THEN node.emitters
    ELSE <<>>

\* NodeVisitor.visit with the visit_* methods of AstFormatter, in two parts:
\* whether the visit raises, and the text it returns when it does not. fmt is
\* the formatter: [fstrings, escape].
\*
\* visitRaises: the KeyError of getFstring for the node itself (visit_EmitterList
\* does not call getFstring), the exception of any child visited, or the
\* exception of .format.
RECURSIVE visitRaises(_, _)
visitRaises(fmt, node) ==
    \/ node.node # "EmitterList" /\ ~getFstring(fmt.fstrings, node).found
    \/ \E i \in DOMAIN Visited(node) : visitRaises(fmt, Visited(node)[i])
    \/ /\ CallsStrFormat(node)
       /\ formatError(node, getFstring(fmt.fstrings, node).template, 1, "none", 0) # "ok"

\* visitText: the string returned. strFormat is format_string.format(...)
\* from piece i on, fieldText the argument passed for a field, joinEmitters
\* the ''.join of visit_EmitterList from emitter i on.
RECURSIVE visitText(_, _), strFormat(_, _, _, _), fieldText(_, _, _), joinEmitters(_, _, _)
visitText(fmt, node) ==
    IF node.node = "EmitterList" THEN joinEmitters(fmt, node.emitters, 1)
    ELSE IF ~CallsStrFormat(node)
    THEN TemplateString(getFstring(fmt.fstrings, node).template, 1)
    ELSE strFormat(fmt, node, getFstring(fmt.fstrings, node).template, 1)

strFormat(fmt, node, template, i) ==
    IF i > Len(template) THEN <<>>
    ELSE (IF template[i].piece = "lit"
          THEN template[i].text
          ELSE fieldText(fmt, node, template[i].field))
            \o strFormat(fmt, node, template, i + 1)

fieldText(fmt, node, name) ==
    IF name = "condition" THEN visitText(fmt, node.condition)
    ELSE IF name = "iftrue" THEN visitText(fmt, node.iftrue)
    ELSE IF name = "iffalse" THEN visitText(fmt, node.iffalse)
    ELSE IF name = "operand1" THEN visitText(fmt, node.operand1)
    ELSE IF name = "operand2" THEN visitText(fmt, node.operand2)
    ELSE IF name = "codepoint" THEN DecText(node.codepoint)
    ELSE IF name = "builtin" THEN NameText(node.builtin)
    ELSE EscapeText(fmt.escape, node.string)

joinEmitters(fmt, emitters, i) ==
    IF i > Len(emitters) THEN <<>>
    ELSE visitText(fmt, emitters[i]) \o joinEmitters(fmt, emitters, i + 1)

\* The exception a visit raises, "ok" when it raises none, in the order of
\* the code: the KeyError of getFstring, then the first exception of a child
\* (firstError from child i on), then the exception of .format.
RECURSIVE visitError(_, _), firstError(_, _, _, _)
visitError(fmt, node) ==
    IF node.node # "EmitterList" /\ ~getFstring(fmt.fstrings, node).found
    THEN "KeyError"
    ELSE firstError(fmt, node, Visited(node), 1)

firstError(fmt, node, children, i) ==
    IF i > Len(children)
    THEN IF CallsStrFormat(node)
         THEN formatError(node, getFstring(fmt.fstrings, node).template, 1, "none", 0)
         ELSE "ok"
    ELSE IF visitRaises(fmt, children[i]) THEN visitError(fmt, children[i])
    ELSE firstError(fmt, node, children, i + 1)

visit(fmt, node) ==
    IF visitRaises(fmt, node) THEN FormatResult(visitError(fmt, node), <<>>)
    ELSE FormatResult("ok", visitText(fmt, node))

\* The key under which getFstring looks a node up
DispatchKey(node) ==
    IF node.node = "BinOp" THEN node.operation
    ELSE IF node.node = "Bool" THEN (IF node.value THEN "true" ELSE "false")
    ELSE node.node

formatRegisteringDefault(fmt, store, id) ==
    [result |-> visit(fmt, store[id]),
     fmt |-> [fmt EXCEPT !.fstrings =
                [k \in DOMAIN fmt.fstrings \cup {DispatchKey(store[id])} |->
                   IF k \in DOMAIN fmt.fstrings THEN fmt.fstrings[k] ELSE <<>>]],
     store |-> store]

\* AstFormatter.format(node) on the tree store[id]: the result, and the
\* formatter and the trees after the call.
format(fmt, store, id) ==
    [result |-> visit(fmt, store[id]), fmt |-> fmt, store |-> store]

\* walk(an): the nodes of a tree
RECURSIVE walk(_), walkAll(_)
walk(an) ==
    {an} \cup
      (IF an.node = "If" THEN walk(an.condition) \cup walk(an.iftrue) \cup walk(an.iffalse)
       ELSE IF an.node = "BinOp" THEN walk(an.operand1) \cup walk(an.operand2)
       ELSE IF an.node = "EmitterList" THEN walkAll(an.emitters)
       ELSE {})
walkAll(list) ==
    IF Len(list) = 0 THEN {} ELSE walk(list[1]) \cup walkAll(Tail(list))

\* A complete template mapping: one entry per dispatch key of the trees.
FullTemplates ==
    [k \in {"If", "Candidate", "Codepoint", "Nop", "Builtin", "ConstantEmitter",
            "eq", "gte", "lte", "land", "true", "false"} |->
       IF k = "If" THEN <<Field("condition"), Lit(<<63>>), Field("iftrue"),
                          Lit(<<58>>), Field("iffalse")>>
       ELSE IF k = "Candidate" THEN <<Lit(<<99>>)>>
       ELSE IF k = "Codepoint" THEN <<Field("codepoint")>>
       ELSE IF k = "Nop" THEN <<Lit(<<59>>)>>
       ELSE IF k = "Builtin" THEN <<Field("builtin"), Lit(<<40, 41>>)>>
       ELSE IF k = "ConstantEmitter" THEN <<Lit(<<34>>), Field(""), Lit(<<34>>)>>
       ELSE IF k = "eq" THEN <<Field("operand1"), Lit(<<61, 61>>), Field("operand2")>>
       ELSE IF k = "gte" THEN <<Field("operand1"), Lit(<<62, 61>>), Field("operand2")>>
       ELSE IF k = "lte" THEN <<Field("operand1"), Lit(<<60, 61>>), Field("operand2")>>
       ELSE IF k = "land" THEN <<Field("operand1"), Lit(<<38, 38>>), Field("operand2")>>
       ELSE IF k = "true" THEN <<Lit(<<49>>)>>
       ELSE <<Lit(<<48>>)>>]

Without(fs, keys) == [k \in DOMAIN fs \ keys |-> fs[k]]

TemplateMappings ==
    {Without(FullTemplates, m) :
        m \in {x \in SUBSET DOMAIN FullTemplates : Cardinality(x) <= MaxMissing}}

\* The document whose trees are rendered: rules [(a-z) -> NOP, m -> A], the
\* default emitter a backslash, A = ["&", HEX].
RenderedDocument ==
    [TARGET |-> "html",
     RULES |-> <<Rule(RangeText(Literal(97), Literal(122)), RefSpec("NOP")),
                 Rule(Literal(109), RefSpec("A"))>>,
     hasDefault |-> TRUE, default |-> StrSpec(<<92>>),
     defs |-> <<Def("A", <<StrSpec(Ampersand), RefSpec("HEX")>>)>>]

\* The trees handed to the formatter. RenderedRoot is the ast of the codec
\* built from the document above, NewCodec(RenderedDocument).root, written
\* out; with it go its first condition, the emitter of its second rule, and
\* an If as its constructor leaves it.
RenderedRoot ==
    If(BinOp("land", BinOp("gte", Candidate, Codepoint(97)),
                     BinOp("lte", Candidate, Codepoint(122))),
       Builtin("NOP"),
       If(BinOp("eq", Candidate, Codepoint(109)),
          EmitterList(<<ConstantEmitter(Ampersand), Builtin("HEX")>>),
          If(Bool(TRUE), ConstantEmitter(<<92>>), Nop)))

Trees ==
    <<RenderedRoot, RenderedRoot.condition, RenderedRoot.iffalse.iftrue,
      If(Bool(FALSE), Nop, Nop)>>

FormatterIdle ==
    /\ fstrings = FullTemplates
    /\ escape = "backslash"
    /\ asts = <<>>
    /\ flog = <<>>

FormatterInit ==
    /\ fstrings \in TemplateMappings
    /\ escape = "backslash"
    /\ asts = Trees
    /\ flog = <<>>

\* fmt.format(asts[id])
Format ==
    /\ Len(flog) < MaxFormats
    /\ \E id \in DOMAIN asts :
         LET r == format([fstrings |-> fstrings, escape |-> escape], asts, id) IN
           /\ fstrings' = r.fmt.fstrings
           /\ escape' = r.fmt.escape
           /\ asts' = r.store
           /\ flog' = Append(flog, [id |-> id, keys |-> DOMAIN fstrings,
                                    escape |-> escape, result |-> r.result])
    /\ UNCHANGED <<encVars, guardVars, codecVars, taskVars>>

\* fmt.<key> = template (AstFormatter.__setattr__)
SetTemplate ==
    /\ \E k \in DOMAIN FullTemplates :
         /\ k \notin DOMAIN fstrings
         /\ fstrings' = [j \in DOMAIN fstrings \cup {k} |->
                           IF j = k THEN FullTemplates[k] ELSE fstrings[j]]
    /\ UNCHANGED <<escape, asts, flog, encVars, guardVars, codecVars, taskVars>>

\* fmt.escape_func = ...
SetEscape ==
    /\ \E e \in EscapeFuncs : e # escape /\ escape' = e
    /\ UNCHANGED <<fstrings, asts, flog, encVars, guardVars, codecVars, taskVars>>

\* ---------------------------------------------------------- specifications

InitEncoder == EncoderInit /\ GuardIdle /\ CodecIdle /\ FormatterIdle /\ TasksIdle
NextEncoder == Add
SpecEncoder == InitEncoder /\ [][NextEncoder]_vars

InitGuard == GuardInit /\ EncoderInit /\ CodecIdle /\ FormatterIdle /\ TasksIdle
NextGuard == ParseGuard \/ Classify
SpecGuard == InitGuard /\ [][NextGuard]_vars

InitCodec == CodecInit /\ EncoderInit /\ GuardIdle /\ FormatterIdle /\ TasksIdle
NextCodec == Compile \/ Reassign \/ Classified
SpecCodec == InitCodec /\ [][NextCodec]_vars

InitFormatter == FormatterInit /\ EncoderInit /\ GuardIdle /\ CodecIdle /\ TasksIdle
NextFormatter == Format \/ SetTemplate \/ SetEscape
SpecFormatter == InitFormatter /\ [][NextFormatter]_vars

\* add called by NTasks tasks on one new Encoder, their statements interleaved
InitConcurrent == EncoderInit /\ TasksInit /\ GuardIdle /\ CodecIdle /\ FormatterIdle
NextConcurrent ==
    \/ \E t \in Tasks : TestMembership(t)
    \/ \E t \in Tasks : AppendTarget(t)
    \/ \E t \in Tasks : AppendCodec(t)
SpecConcurrent == InitConcurrent /\ [][NextConcurrent]_vars

\* ------------------------------------------------------------------ claims

\* C2: an add of a codec whose target is the target of a codec already
\* added ends with the duplicate-target error (ValueError in the source) and
\* leaves the list of codecs and the list of targets as they were, so that
\* exactly one codec of that target is enumerated.
C2_DuplicateAddRejected ==
    [][ ( /\ nCalls' = nCalls + 1
          /\ lastAdd'.arg.kind = "Codec"
          /\ \E i \in DOMAIN codecs : codecs[i].target = lastAdd'.arg.target )
        => ( /\ lastAdd'.outcome = "ValueError"
             /\ codecs' = codecs
             /\ targets' = targets
             /\ Cardinality({i \in DOMAIN codecs' :
                               codecs'[i].target = lastAdd'.arg.target}) = 1 ) ]_vars

\* A second codec object of target "html" has just been rejected.
C2_Witness ==
    /\ lastAdd.outcome = "ValueError"
    /\ lastAdd.arg.target = "html"
    /\ \E i \in DOMAIN codecs :
         codecs[i].target = "html" /\ codecs[i].id # lastAdd.arg.id

\* C3: after any sequence of add calls the targets of the enumerated codecs
\* are pairwise distinct, the target list and the codec list have one length
\* and agree position by position, and the codecs enumerated are the ones
\* whose add succeeded, in the order in which they succeeded.
C3_RegistryInvariant ==
    /\ Len(targets) = Len(codecs)
    /\ \A i \in DOMAIN codecs : targets[i] = codecs[i].target
    /\ \A i, j \in DOMAIN codecs : i # j => codecs[i].target # codecs[j].target
    /\ codecs = addLog

\* Three codecs were added and one call was rejected.
C3_Witness ==
    /\ Len(codecs) = 3
    /\ nCalls = 4
    /\ codecs[1].target # codecs[3].target

\* C4: a literal character, its 4-digit escape (basic multilingual plane)
\* and its zero-padded 6-digit escape all parse to EQ(Candidate, Codepoint)
\* with the same code point, and so match that code point and no other.
C4_FormsDenoteSameCodepoint ==
    \A c \in CodePoints :
      (guard \in PointForms(c) /\ gres # Pending)
        => /\ gres = GuardResult("ok", BinOp("eq", Candidate, Codepoint(c)))
           /\ (gcand # NoCandidate => (gcand.holds <=> gcand.cand = c))

\* The 6-digit escape of U+00AB, written with lower-case digits, was parsed
\* and matched the candidate U+00AB.
C4_Witness ==
    /\ guard = Escape(171, 6, ChUpperU, FALSE)
    /\ gres.status = "ok"
    /\ gcand.cand = 171
    /\ gcand.holds

\* C5: a range "(A-B)" with ordinal(A) <= ordinal(B) parses to
\* AND(GTE(Candidate, A), LTE(Candidate, B)), which holds for a candidate p
\* exactly when ordinal(A) <= p <= ordinal(B).
C5_RangeInclusive ==
    \A a, b \in RangeEndPoints :
      ( /\ a <= b
        /\ gres # Pending
        /\ \E ta \in EndForms(a), tb \in EndForms(b) : guard = RangeText(ta, tb) )
        => /\ gres = GuardResult("ok",
                        BinOp("land", BinOp("gte", Candidate, Codepoint(a)),
                                      BinOp("lte", Candidate, Codepoint(b))))
           /\ (gcand # NoCandidate
                 => (gcand.holds <=> (a <= gcand.cand /\ gcand.cand <= b)))

\* The range (a-z) matched its upper end z.
C5_Witness ==
    /\ guard = RangeText(Literal(97), Literal(122))
    /\ gres.status = "ok"
    /\ gcand.cand = 122
    /\ gcand.holds

\* The three forms of a guard, each as the whole of the text, the range with
\* its ends in order.
ExactGuardForm(t) ==
    \/ Len(t) = 1
    \/ IsEscape(t, 4)
    \/ IsEscape(t, 6)
    \/ \E la, lb \in {1, 6, 8} :
         /\ Len(t) = la + lb + 3
         /\ t[1] = ChLParen
         /\ OperandAt(t, 2, la)
         /\ t[2 + la] = ChMinus
         /\ OperandAt(t, 3 + la, lb)
         /\ t[Len(t)] = ChRParen
         /\ RangeEnd(SubSeq(t, 2, 1 + la)).cp <= RangeEnd(SubSeq(t, 3 + la, 2 + la + lb)).cp

\* C6: a guard text that is not exactly one of the three forms, or a range
\* whose ends are out of order, is never accepted and turned into a predicate.
C6_OnlyExactFormsAccepted ==
    gres.status = "ok" => ExactGuardForm(guard)

\* The out-of-order range (z-a) was refused.
C6_Witness ==
    /\ guard = RangeText(Literal(122), Literal(97))
    /\ gres.status = "AssertionError"

NoNameTwice(list) == \A i, j \in DOMAIN list : i # j => list[i] # list[j]

\* C1: first match wins. A candidate run through the If chain of a codec
\* reaches the emitter of the lowest-index rule whose guard holds for it; when
\* no guard holds it reaches an emitter that produces what the default emitter
\* (a string or a reference) produces if the document has one, and nothing
\* otherwise.
C1_FirstMatchWins ==
    (compiled.status = "ok" /\ sel # NoSelection)
      => LET c == sel.cand
             matching == {i \in DOMAIN doc.RULES :
                            Holds(parseGuard(doc.RULES[i].guard).node, c)}
         IN  IF matching # {}
             THEN LET first == CHOOSE i \in matching : \A j \in matching : i <= j
                  IN  sel.emitter = parseEmitter(doc, doc.RULES[first].emitter, <<>>).node
             ELSE IF doc.hasDefault /\ doc.default.kind \in {"str", "ref"}
             THEN Emit(sel.emitter, c) = Emit(parseEmitter(doc, doc.default, <<>>).node, c)
             ELSE Emit(sel.emitter, c) = <<>>

\* Rules [(a-z) -> NOP, m -> HEX]: the candidate m reached NOP.
C1_Witness ==
    /\ doc.RULES = <<Rule(RangeText(Literal(97), Literal(122)), RefSpec("NOP")),
                     Rule(Literal(109), RefSpec("HEX"))>>
    /\ sel.cand = 109
    /\ sel.emitter = Builtin("NOP")

\* C7: resolving an emitter that refers to itself, directly or through
\* others, stops when a name is met that is still being resolved: the names
\* being resolved never hold one name twice, and the interpreter's stack is
\* never exhausted.
C7_CycleStopsAtRevisit ==
    compiled # NotBuilt
      => /\ compiled.status # "RecursionError"
         /\ NoNameTwice(compiled.chain)

\* C10 (its uniqueness clause): the emitter names a codec exposes contain no
\* name twice, also when the document declares a user-defined emitter under
\* the name of a builtin.
C10_EmitterNamesUnique ==
    compiled.status = "ok" => NoNameTwice(compiled.emitters)

\* C8: a format call fails whenever a node of the tree it renders has a
\* dispatch key (the operator of a BinOp, the value of a Bool, the kind of any
\* other node) that the template mapping has no entry for.
C8_MissingKeyFails ==
    \A i \in DOMAIN flog :
      (\E n \in walk(asts[flog[i].id]) :
          n.node # "EmitterList" /\ DispatchKey(n) \notin flog[i].keys)
        => flog[i].result.status = "KeyError"

\* A tree was rendered with no template for Candidate, and the call failed.
C8_Witness ==
    \E i \in DOMAIN flog :
      /\ "Candidate" \notin flog[i].keys
      /\ flog[i].id = 2
      /\ flog[i].result.status = "KeyError"

\* C9: a format call changes neither the trees nor the template mapping nor
\* the escape function, and all the calls made with one tree, one mapping and
\* one escape function returned the same, whatever was rendered in between.
C9_RenderingIsPure ==
    [][ Len(flog') = Len(flog) + 1
        => /\ asts' = asts
           /\ fstrings' = fstrings
           /\ escape' = escape
           /\ \A i, j \in DOMAIN flog' :
                ( /\ flog'[i].id = flog'[j].id
                  /\ flog'[i].keys = flog'[j].keys
                  /\ flog'[i].escape = flog'[j].escape )
                  => flog'[i].result = flog'[j].result ]_vars

\* The codec's root was rendered, then another tree, then the root again,
\* with one mapping and one escape function.
C9_Witness ==
    /\ Len(flog) = 3
    /\ flog[1].id = 1 /\ flog[2].id = 3 /\ flog[3].id = 1
    /\ flog[1].keys = flog[3].keys
    /\ flog[1].escape = flog[3].escape
    /\ flog[1].result.status = "ok"
    /\ flog[3].result = flog[1].result

\* The i-th node of the chain that starts at n, following iffalse.
RECURSIVE NodeAt(_, _)
NodeAt(n, i) == IF i <= 1 THEN n ELSE NodeAt(n.iffalse, i - 1)

\* C11: the tree of a codec built from n rules is a chain of exactly n + 1 If
\* nodes along iffalse: the i-th has the parsed guard of rule i as condition
\* and the parsed emitter of rule i as iftrue; the last has condition true
\* and, as iftrue, the parsed DEFAULT-EMITTER whenever the document has that
\* key (the empty string included), Nop only when it has not.
C11_ChainOfIfs ==
    compiled.status = "ok"
      => LET n == Len(doc.RULES)
             last == NodeAt(compiled.root, n + 1)
         IN  /\ \A i \in 1..n :
                   LET node == NodeAt(compiled.root, i) IN
                   /\ node.node = "If"
                   /\ node.condition = parseGuard(doc.RULES[i].guard).node
                   /\ node.iftrue = parseEmitter(doc, doc.RULES[i].emitter, <<>>).node
             /\ last.node = "If"
             /\ last.condition = Bool(TRUE)
             /\ last.iffalse.node # "If"
             /\ last.iftrue = IF doc.hasDefault
                              THEN parseEmitter(doc, doc.default, <<>>).node
                              ELSE Nop

\* A document with one rule and DEFAULT-EMITTER "" was compiled.
C11_Witness ==
    /\ compiled.status = "ok"
    /\ Len(doc.RULES) = 1
    /\ doc.hasDefault
    /\ doc.default = StrSpec(<<>>)

\* A predicate: a Bool, a comparison of the candidate with a code point, or
\* a connective of two predicates.
RECURSIVE PredicateTyped(_)
PredicateTyped(n) ==
    \/ n.node = "Bool"
    \/ /\ n.node = "BinOp"
       /\ IF n.operation \in {"land", "lor"}
          THEN PredicateTyped(n.operand1) /\ PredicateTyped(n.operand2)
          ELSE n.operand1.node = "Candidate" /\ n.operand2.node = "Codepoint"

\* An emitter: Nop, a builtin, a constant, or a list of emitters.
RECURSIVE EmitterTyped(_)
EmitterTyped(n) ==
    \/ n.node \in {"Nop", "Builtin", "ConstantEmitter"}
    \/ /\ n.node = "EmitterList"
       /\ \A i \in DOMAIN n.emitters : EmitterTyped(n.emitters[i])

RECURSIVE ChainTyped(_)
ChainTyped(n) ==
    IF n.node = "If"
    THEN /\ PredicateTyped(n.condition)
         /\ EmitterTyped(n.iftrue)
         /\ ChainTyped(n.iffalse)
    ELSE EmitterTyped(n)

\* C12: in the tree of every codec built from an accepted document, every If
\* has a predicate as condition, an emitter as iftrue and an If or an emitter
\* as iffalse; comparisons have the operands (Candidate, Codepoint),
\* connectives have two predicates, and the elements of an EmitterList are
\* emitters.
C12_TreeWellTyped ==
    compiled.status = "ok"
      => /\ compiled.root.node = "If"
         /\ ChainTyped(compiled.root)

\* A codec with a range guard, a single-character guard, an emitter list
\* (A = ["&", {"emitter": "HEX"}]) and a constant default was built.
C12_Witness ==
    /\ compiled.status = "ok"
    /\ doc.RULES = <<Rule(RangeText(Literal(97), Literal(122)), RefSpec("A")),
                     Rule(Literal(109), RefSpec("HEX"))>>
    /\ doc.defs = <<Def("A", <<StrSpec(Ampersand), RefSpec("HEX")>>)>>
    /\ doc.hasDefault /\ doc.default = StrSpec(Ampersand)
    /\ compiled.root.iftrue.node = "EmitterList"
    /\ compiled.root.condition.operation = "land"

\* The tasks that called add with a codec of target tg.
CallersOf(tg) ==
    {t \in DOMAIN tasks : tasks[t].arg.kind = "Codec" /\ tasks[t].arg.target = tg}

\* C13: when several tasks have called add on one Encoder at the same time
\* with codecs of one target, then however their statements were interleaved,
\* one of the calls returned, every other ended with the duplicate-target
\* error, and the Encoder holds one codec of that target.
C13_ConcurrentAddsKeepTargetsUnique ==
    (tasks # <<>> /\ \A t \in DOMAIN tasks : tasks[t].pc = "done")
      => \A tg \in TargetNames :
           Cardinality(CallersOf(tg)) >= 2
             => /\ Cardinality({t \in CallersOf(tg) : tasks[t].outcome = "ok"}) = 1
                /\ \A t \in CallersOf(tg) : tasks[t].outcome \in {"ok", "ValueError"}
                /\ Cardinality({i \in DOMAIN codecs : codecs[i].target = tg}) = 1
                /\ Cardinality({i \in DOMAIN targets : targets[i] = tg}) = 1

\* Two calls with two codecs of target "html" have ended, one of them with
\* the duplicate-target error.
C13_Witness ==
    /\ tasks # <<>>
    /\ \A t \in DOMAIN tasks : tasks[t].pc = "done"
    /\ \E t, u \in CallersOf("html") :
         /\ t # u
         /\ tasks[t].arg.id # tasks[u].arg.id
         /\ tasks[t].outcome = "ok"
         /\ tasks[u].outcome = "ValueError"

====
